---- MODULE Spec2Model ----
(***************************************************************************)
(* Recovery / resume layer of the audiobook creator.                       *)
(*                                                                         *)
(* The model follows src/utils/recovery_utils.py (checkpoint loading,      *)
(* segment validation, resume decision, stale-output cleanup, the phase    *)
(* pipeline) and src/retry_audiobook_assembly.py (main, retry_assembly).   *)
(* File names are sequences of one-character strings, so that the glob     *)
(* patterns, the unit naming convention and the extension handling are     *)
(* computed the way the code computes them.                                *)
(***************************************************************************)
EXTENDS Integers, Sequences, FiniteSets, TLC

VARIABLES
    workDir,        \* names of the entries of temp_audio_dir (the working directory)
    ckptFile,       \* content of recovery_checkpoint.json, meaningful when it is in workDir
    unitDirExists,  \* whether temp_audio_dir/line_segments exists
    unitDir,        \* line_segments: file name -> size class ("absent", "empty", "data")
    locked,         \* names os.remove refuses to remove (OSError)
    startDir,       \* the entries of the working directory when the run started
    opts,           \* command line options of the run
    pc,             \* position of the run in main / retry_assembly / the phase generator
    resume,         \* what can_resume_from_assembly returned (or raised)
    chapter_files,  \* local of retry_assembly after resume_from_assembly_phase
    chapter_line_map, \* local of retry_assembly after resume_from_assembly_phase
    idx,            \* position of the current for loop of the phase generator (1-based)
    m4a_chapter_files, \* local list of the phase generator
    log,            \* external media operations invoked and status messages yielded
                    \* by the phase generator, in the order they happened
    failure,        \* the external operation that failed, if any
    exitCode,       \* process exit code; -1 while running
    writer,         \* a call of create_recovery_checkpoint: its arguments and position
    reader,         \* a call of load_recovery_checkpoint: its position and what it got
    previous        \* the logs of the earlier runs on this working directory, oldest first

vars == <<workDir, ckptFile, unitDirExists, unitDir, locked, startDir, opts, pc, resume,
          chapter_files, chapter_line_map, idx, m4a_chapter_files, log, failure, exitCode,
          writer, reader, previous>>

(***************************************************************************)
(* Bounds                                                                  *)
(***************************************************************************)
\* largest total_lines a checkpoint declares
MaxLines == 2
\* largest number of groups (chapters) a checkpoint lists
MaxGroups == 2
\* most re-invocations of the script after an aborted run
MaxRetries == 1

(***************************************************************************)
(* File names                                                              *)
(***************************************************************************)
Digit == <<"0", "1", "2", "3", "4", "5", "6", "7", "8", "9">>

\* width of the zero padded index of a unit file name, f"line_{i:06d}.wav"
PadWidth == 6

RECURSIVE Digits(_)
\* decimal digits of n, most significant first (str(n))
Digits(n) == IF n < 10 THEN <<Digit[n + 1]>>
             ELSE Digits(n \div 10) \o <<Digit[(n % 10) + 1]>>

RECURSIVE ZeroPad(_, _)
\* format(n, "0{w}d"): left padded with zeros to at least w characters
ZeroPad(s, w) == IF Len(s) >= w THEN s ELSE ZeroPad(<<"0">> \o s, w)

LinePrefix == <<"l", "i", "n", "e", "_">>
ExtWav == <<".", "w", "a", "v">>
ExtM4a == <<".", "m", "4", "a">>

\* faulty variant: a five digit index, f"line_{i:05d}.wav"
LineFileNarrow(i) == LinePrefix \o ZeroPad(Digits(i), PadWidth - 1) \o ExtWav

\* f"line_{i:06d}.wav"
LineFile(i) == LinePrefix \o ZeroPad(Digits(i), PadWidth) \o ExtWav

\* "recovery_checkpoint.json"
CheckpointName == <<"r", "e", "c", "o", "v", "e", "r", "y", "_", "c", "h", "e", "c", "k",
                    "p", "o", "i", "n", "t", ".", "j", "s", "o", "n">>

Ch1Wav == <<"c", "h", "1", ".", "w", "a", "v">>
Ch2Wav == <<"c", "h", "2", ".", "w", "a", "v">>
Ch1XWav == <<"c", "h", "1", ".", "x", ".", "w", "a", "v">>
ChapterList1Txt == <<"c", "h", "a", "p", "t", "e", "r", "_", "l", "i", "s", "t", "_", "1",
                     ".", "t", "x", "t">>
Ch1TempWav == <<"c", "h", "1", ".", "t", "e", "m", "p", ".", "w", "a", "v">>
Ch1TempM4a == <<"c", "h", "1", ".", "t", "e", "m", "p", ".", "m", "4", "a">>
Ch1ConcatList == <<"c", "h", "1", ".", "c", "o", "n", "c", "a", "t", "_", "l", "i", "s", "t",
                   ".", "t", "x", "t">>
NotesTxt == <<"n", "o", "t", "e", "s", ".", "t", "x", "t">>

\* group identifiers a checkpoint may list
GroupIds == {Ch1Wav, Ch2Wav, Ch1XWav}

(***************************************************************************)
(* glob / fnmatch                                                          *)
(***************************************************************************)
RECURSIVE FnMatch(_, _)
\* fnmatch of a pattern whose only wildcard is "*"
FnMatch(pat, name) ==
    IF pat = <<>> THEN name = <<>>
    ELSE IF Head(pat) = "*"
         THEN FnMatch(Tail(pat), name) \/ (name # <<>> /\ FnMatch(pat, Tail(name)))
         ELSE name # <<>> /\ Head(name) = Head(pat) /\ FnMatch(Tail(pat), Tail(name))

\* glob.glob(os.path.join(dir, pat)): a leading "*" does not match a hidden entry
Glob(dir, pat) ==
    {f \in dir : FnMatch(pat, f) /\ ~(Head(f) = "." /\ Head(pat) # ".")}

PatChapterList == <<"c", "h", "a", "p", "t", "e", "r", "_", "l", "i", "s", "t", "_", "*",
                    ".", "t", "x", "t">>
PatTempWav == <<"*", ".", "t", "e", "m", "p", ".", "w", "a", "v">>
PatConcatList == <<"*", ".", "c", "o", "n", "c", "a", "t", "_", "l", "i", "s", "t",
                   ".", "t", "x", "t">>
\* "*.json"
PatJson == <<"*", ".", "j", "s", "o", "n">>

\* faulty variant: the patterns with "*.json" added
temp_patterns_wide == <<PatChapterList, PatTempWav, PatConcatList, PatJson>>

\* the transient-artifact patterns of cleanup_partial_chapters
temp_patterns == <<PatChapterList, PatTempWav, PatConcatList>>

(***************************************************************************)
(* Checkpoint file content and parsed JSON values                          *)
(***************************************************************************)
\* Python None, which is also what json.load gives for the text "null"
None == [type |-> "null", fields |-> <<>>, len |-> 0]

\* a JSON array of n elements, as json.load gives it (a list)
JArray(n) == [type |-> "array", fields |-> <<>>, len |-> n]

\* a JSON object, as json.load gives it (a dict); f is a record of its keys
JObject(f) == [type |-> "object", fields |-> f, len |-> Cardinality(DOMAIN f)]

\* bool(v) in Python: None is false, a dict or a list is true when it is not empty
Truthy(v) == v.type # "null" /\ v.len > 0

\* the forms a file at the checkpoint path can have
\*   "json"       text that json.load parses to .value
\*   "malformed"  text that json.load rejects with JSONDecodeError
\*   "badutf8"    bytes that are not UTF-8: reading raises UnicodeDecodeError
\*   "unreadable" open() fails with an OSError (permissions, a directory)
\*   "text"       the JSON text itself, as the sequence .value of its tokens
FileJson(v) == [form |-> "json", value |-> v]
FileText(text) == [form |-> "text", value |-> text]
FileMalformed == [form |-> "malformed", value |-> None]
FileBadUtf8 == [form |-> "badutf8", value |-> None]
FileUnreadable == [form |-> "unreadable", value |-> None]
NoFile == [form |-> "none", value |-> None]

(***************************************************************************)
(* JSON text: json.dump and json.load                                      *)
(*                                                                         *)
(* A text is the sequence of its tokens: the brackets, and the scalars and *)
(* object keys with the separator that goes with them.  A string is kept   *)
(* as its pieces (.s); .whole marks a string the model keeps in one piece  *)
(* (a field name, a line of the book) rather than character by character   *)
(* (a file name).                                                          *)
(***************************************************************************)
Tok(t, s, whole, n, b) == [t |-> t, s |-> s, whole |-> whole, n |-> n, b |-> b]

LBrace == Tok("{", <<>>, FALSE, 0, FALSE)
RBrace == Tok("}", <<>>, FALSE, 0, FALSE)
LBracket == Tok("[", <<>>, FALSE, 0, FALSE)
RBracket == Tok("]", <<>>, FALSE, 0, FALSE)
NullTok == Tok("null", <<>>, FALSE, 0, FALSE)
IntTok(n) == Tok("int", <<>>, FALSE, n, FALSE)
BoolTok(b) == Tok("bool", <<>>, FALSE, 0, b)
\* a string that is a file name
NameTok(name) == Tok("str", name, FALSE, 0, FALSE)
\* a string the model keeps in one piece
TextTok(str) == Tok("str", <<str>>, TRUE, 0, FALSE)
\* object keys: a field name, a file name
FieldKey(str) == Tok("key", <<str>>, TRUE, 0, FALSE)
NameKey(name) == Tok("key", name, FALSE, 0, FALSE)

\* the Python string a string token or key token stands for
Unquote(tok) == IF tok.whole THEN tok.s[1] ELSE tok.s

RECURSIVE DumpInts(_)
DumpInts(q) == IF q = <<>> THEN <<>> ELSE <<IntTok(Head(q))>> \o DumpInts(Tail(q))

RECURSIVE DumpNames(_)
DumpNames(q) == IF q = <<>> THEN <<>> ELSE <<NameTok(Head(q))>> \o DumpNames(Tail(q))

RECURSIVE DumpLineMap(_, _)
\* the members of chapter_line_map, in the order keys lists them
DumpLineMap(map, keys) ==
    IF keys = <<>> THEN <<>>
    ELSE <<NameKey(Head(keys)), LBracket>> \o DumpInts(map[Head(keys)]) \o <<RBracket>>
         \o DumpLineMap(map, Tail(keys))

RECURSIVE DumpMetadata(_)
DumpMetadata(q) ==
    IF q = <<>> THEN <<>>
    ELSE <<LBrace, FieldKey("index"), IntTok(Head(q).index),
           FieldKey("line"), TextTok(Head(q).line),
           FieldKey("is_chapter_heading"), BoolTok(Head(q).is_chapter_heading), RBrace>>
         \o DumpMetadata(Tail(q))

\* json.dump(checkpoint_data, f, indent=2, ensure_ascii=False): the text written; keys
\* is the insertion order of the keys of chapter_line_map
Dump(data, keys) ==
    <<LBrace, FieldKey("chapter_line_map"), LBrace>>
    \o DumpLineMap(data.chapter_line_map, keys)
    \o <<RBrace, FieldKey("chapter_files"), LBracket>>
    \o DumpNames(data.chapter_files)
    \o <<RBracket, FieldKey("total_lines"), IntTok(data.total_lines),
         FieldKey("results_metadata"), LBracket>>
    \o DumpMetadata(data.results_metadata)
    \o <<RBracket, RBrace>>

\* the result of parsing a value that starts at token i: the value and the position
\* after it, or a failure (json.JSONDecodeError)
Parsed(v, next) == [ok |-> TRUE, value |-> v, next |-> next]
ParseError == [ok |-> FALSE, value |-> <<>>, next |-> 0]

\* the dict of a list of <<key, value>> pairs: the last of equal keys wins
MakeDict(pairs) ==
    [k \in {pairs[j][1] : j \in 1..Len(pairs)} |->
        pairs[CHOOSE j \in 1..Len(pairs) :
                pairs[j][1] = k /\ \A h \in (j + 1)..Len(pairs) : pairs[h][1] # k][2]]

RECURSIVE ParseValue(_, _)
RECURSIVE ParseMembers(_, _, _)
RECURSIVE ParseElements(_, _, _)
\* the JSON decoder, at token i of text
ParseValue(text, i) ==
    IF i > Len(text) THEN ParseError
    ELSE CASE text[i].t = "{" -> ParseMembers(text, i + 1, <<>>)
           [] text[i].t = "[" -> ParseElements(text, i + 1, <<>>)
           [] text[i].t = "str" -> Parsed(Unquote(text[i]), i + 1)
           [] text[i].t = "int" -> Parsed(text[i].n, i + 1)
           [] text[i].t = "bool" -> Parsed(text[i].b, i + 1)
           [] text[i].t = "null" -> Parsed(None, i + 1)
           [] OTHER -> ParseError

\* the members of an object, up to its closing brace
ParseMembers(text, i, pairs) ==
    IF i > Len(text) THEN ParseError
    ELSE IF text[i].t = "}" THEN Parsed(MakeDict(pairs), i + 1)
    ELSE IF text[i].t # "key" THEN ParseError
    ELSE LET r == ParseValue(text, i + 1)
         IN  IF ~r.ok THEN ParseError
             ELSE ParseMembers(text, r.next, Append(pairs, <<Unquote(text[i]), r.value>>))

\* the elements of an array, up to its closing bracket
ParseElements(text, i, elems) ==
    IF i > Len(text) THEN ParseError
    ELSE IF text[i].t = "]" THEN Parsed(elems, i + 1)
    ELSE LET r == ParseValue(text, i)
         IN  IF ~r.ok THEN ParseError
             ELSE ParseElements(text, r.next, Append(elems, r.value))

\* json.load of a text: the value as the model keeps it, or JSONDecodeError when the
\* text does not start with a value or goes on after it ("Extra data")
JsonLoad(text) ==
    LET r == ParseValue(text, 1)
    IN  IF ~r.ok \/ r.next # Len(text) + 1
        THEN [raised |-> "JSONDecodeError", value |-> None]
        ELSE [raised |-> "none",
              value |-> CASE text[1].t = "{" -> JObject(r.value)
                          [] text[1].t = "[" -> JArray(Len(r.value))
                          [] text[1].t = "null" -> None
                          [] OTHER -> [type |-> "scalar", fields |-> <<>>,
                                       len |-> IF \/ text[1].t = "int" /\ text[1].n = 0
                                                  \/ text[1].t = "bool" /\ ~text[1].b
                                                  \/ text[1].t = "str" /\ text[1].s = <<>>
                                               THEN 0 ELSE 1]]

\* faulty variant: no existence test and no except clause
load_recovery_checkpoint_strict(dir, file) ==
    IF CheckpointName \notin dir THEN [raised |-> "FileNotFoundError", value |-> None]
    ELSE IF file.form = "json" THEN [raised |-> "none", value |-> file.value]
    ELSE [raised |-> "JSONDecodeError", value |-> None]

\* load_recovery_checkpoint: the value returned, or the exception that escapes
load_recovery_checkpoint(dir, file) ==
    IF CheckpointName \notin dir THEN [raised |-> "none", value |-> None]
    ELSE CASE file.form = "json" -> [raised |-> "none", value |-> file.value]
           [] file.form = "text" -> [raised |-> "none", value |-> JsonLoad(file.value).value]
           [] file.form = "malformed" -> [raised |-> "none", value |-> None]
           [] file.form = "unreadable" -> [raised |-> "none", value |-> None]
           [] OTHER -> [raised |-> "UnicodeDecodeError", value |-> None]

(***************************************************************************)
(* Segment validator                                                       *)
(***************************************************************************)
\* size class of a unit file: "absent", "empty" (0 bytes) or "data"
SizeOf(udir, name) == IF name \in DOMAIN udir THEN udir[name] ELSE "absent"

RECURSIVE MissingExistsOnly(_, _, _)
\* faulty variant: the loop without the os.path.getsize test
MissingExistsOnly(udir, i, n) ==
    IF i >= n THEN <<>>
    ELSE (IF SizeOf(udir, LineFile(i)) = "absent" THEN <<i>> ELSE <<>>)
         \o MissingExistsOnly(udir, i + 1, n)

RECURSIVE MissingFrom(_, _, _)
\* the loop of validate_line_segments from index i on
MissingFrom(udir, i, n) ==
    IF i >= n THEN <<>>
    ELSE (IF SizeOf(udir, LineFile(i)) = "absent" \/ SizeOf(udir, LineFile(i)) = "empty"
          THEN <<i>> ELSE <<>>)
         \o MissingFrom(udir, i + 1, n)

\* list(range(n))
Range(n) == [k \in 1..n |-> k - 1]

\* faulty variant: no test that the directory exists
validate_without_dir_test(exists, udir, n) ==
    LET missing == MissingFrom(udir, 0, n)
    IN  <<Len(missing) = 0, missing>>

\* validate_line_segments: <<all_present, missing_indices>>
validate_line_segments(exists, udir, n) ==
    IF ~exists THEN <<FALSE, Range(n)>>
    ELSE LET missing == MissingFrom(udir, 0, n)
         IN  <<Len(missing) = 0, missing>>

(***************************************************************************)
(* Resume controller                                                       *)
(***************************************************************************)
\* checkpoint_data.get(key, default)
DictGet(d, key, default) == IF key \in DOMAIN d.fields THEN d.fields[key] ELSE default

\* the outcome of a call of can_resume_from_assembly: the exception raised or the pair
\* returned, and the validator's answer when it ran
ResumeResult(raised, can, data, validated, allp, missing) ==
    [called |-> TRUE, raised |-> raised, can_resume |-> can, checkpoint_data |-> data,
     validated |-> validated, all_present |-> allp, missing |-> missing]

NotCalled == [ResumeResult("none", FALSE, None, FALSE, FALSE, <<>>) EXCEPT !.called = FALSE]

\* can_resume_from_assembly: (can_resume, checkpoint_data), the validator's answer when
\* it ran, or the exception that escapes
can_resume_from_assembly(dir, file, exists, udir) ==
    LET loaded == load_recovery_checkpoint(dir, file)
    IN  IF loaded.raised # "none"
        THEN ResumeResult(loaded.raised, FALSE, None, FALSE, FALSE, <<>>)
        ELSE IF ~Truthy(loaded.value)
        THEN ResumeResult("none", FALSE, None, FALSE, FALSE, <<>>)
        ELSE IF loaded.value.type # "object"
        THEN ResumeResult("AttributeError", FALSE, None, FALSE, FALSE, <<>>)
        ELSE LET v == validate_line_segments(exists, udir,
                                             DictGet(loaded.value, "total_lines", 0))
             IN  IF ~v[1]
                 THEN ResumeResult("none", FALSE, None, TRUE, v[1], v[2])
                 ELSE ResumeResult("none", TRUE, loaded.value, TRUE, v[1], v[2])

(***************************************************************************)
(* Stale-output cleaner                                                    *)
(***************************************************************************)
RECURSIVE RemoveChaptersUntilFailure(_, _, _)
\* faulty variant of the first loop: the first OSError ends the loop
RemoveChaptersUntilFailure(dir, files, lk) ==
    IF files = <<>> THEN dir
    ELSE IF Head(files) \in dir /\ Head(files) \in lk THEN dir
    ELSE RemoveChaptersUntilFailure(dir \ {Head(files)}, Tail(files), lk)

RECURSIVE RemoveChapters(_, _, _)
\* first loop of cleanup_partial_chapters: os.remove of every listed file that
\* exists; an OSError (a locked name) is caught and the loop goes on
RemoveChapters(dir, files, lk) ==
    IF files = <<>> THEN dir
    ELSE LET f == Head(files)
         IN  RemoveChapters(IF f \in dir /\ f \notin lk THEN dir \ {f} ELSE dir,
                            Tail(files), lk)

RECURSIVE RemoveMatches(_, _, _)
\* second loop: os.remove of every glob match of every pattern, OSError ignored
RemoveMatches(dir, pats, lk) ==
    IF pats = <<>> THEN dir
    ELSE RemoveMatches(dir \ (Glob(dir, Head(pats)) \ lk), Tail(pats), lk)

RECURSIVE RemoveFirstChapter(_, _, _)
\* faulty variant of the first loop: it stops after the first file it removed
RemoveFirstChapter(dir, files, lk) ==
    IF files = <<>> THEN dir
    ELSE IF Head(files) \in dir /\ Head(files) \notin lk THEN dir \ {Head(files)}
    ELSE RemoveFirstChapter(dir, Tail(files), lk)

\* faulty variant of cleanup_partial_chapters, with that first loop
cleanup_stop_after_first(dir, files, lk) ==
    RemoveMatches(RemoveFirstChapter(dir, files, lk), temp_patterns, lk)

\* faulty variant of cleanup_partial_chapters: only the transient files are removed
cleanup_temp_only(dir, files, lk) == RemoveMatches(dir, temp_patterns, lk)

\* cleanup_partial_chapters: the directory entries left
cleanup_partial_chapters(dir, files, lk) ==
    RemoveMatches(RemoveChapters(dir, files, lk), temp_patterns, lk)

(***************************************************************************)
(* Phase pipeline helpers                                                  *)
(***************************************************************************)
\* padding appended by the post-processing step, in milliseconds
SilenceMs == 1000

RECURSIVE SplitDot(_)
\* name.split('.'): the pieces between the dots
SplitDot(name) ==
    IF \A k \in 1..Len(name) : name[k] # "." THEN <<name>>
    ELSE LET k == CHOOSE j \in 1..Len(name) :
                      name[j] = "." /\ \A h \in 1..(j - 1) : name[h] # "."
         IN  <<SubSeq(name, 1, k - 1)>> \o SplitDot(SubSeq(name, k + 1, Len(name)))

\* f"{chapter_file.split('.')[0]}.m4a"
M4aName(chapter_file) == SplitDot(chapter_file)[1] \o ExtM4a

\* a status message yielded by the phase generator
Event(msg, arg) == [kind |-> "event", msg |-> msg, arg |-> arg]

\* a call of an external media operation with its arguments
MediaOp(op, file, out, units, files, ms) ==
    [kind |-> "op", op |-> op, file |-> file, out |-> out, units |-> units, files |-> files, ms |-> ms,
     dir |-> opts.temp_dir,
     book |-> IF op = "generate_m4b" THEN opts.book_path ELSE FALSE,
     voice |-> IF op = "generate_m4b" THEN opts.narrator_gender ELSE ""]

NoFailure == [op |-> "none", file |-> <<>>]

\* what an external media operation leaves in the working directory: assemble writes
\* the group file (possibly partially, when it fails), convert writes its output
MediaEffect(dir, o, ok, partial) ==
    CASE o.op = "assemble" -> IF ok \/ partial THEN dir \cup {o.file} ELSE dir
      [] o.op = "convert" -> IF ok \/ partial THEN dir \cup {o.out} ELSE dir
      [] OTHER -> dir

(***************************************************************************)
(* main and retry_assembly                                                 *)
(***************************************************************************)
Env == <<ckptFile, unitDirExists, unitDir, locked, startDir, opts, writer, reader, previous>>
Locals == <<chapter_files, chapter_line_map, idx, m4a_chapter_files>>
Trace == <<log, failure>>

IsEvent(e) == e.kind = "event"
IsOp(e) == e.kind = "op"

\* the status messages printed so far
Events == SelectSeq(log, IsEvent)

\* the external operations invoked so far
Ops == SelectSeq(log, IsOp)

\* main: argument validation, then retry_assembly
Main ==
    /\ pc = "main"
    /\ IF opts.generate_m4b /\ ~opts.book_path
       THEN pc' = "exit" /\ exitCode' = 1
       ELSE pc' = "check" /\ exitCode' = exitCode
    /\ UNCHANGED <<workDir, Env, resume, Locals, Trace>>

\* faulty variant: the transient files are removed before the resume decision
CanResumeStepCleansFirst ==
    /\ pc = "check"
    /\ workDir' = RemoveMatches(workDir, temp_patterns, locked)
    /\ LET r == can_resume_from_assembly(workDir, ckptFile, unitDirExists, unitDir)
       IN  /\ resume' = r
           /\ IF r.raised # "none"
              THEN pc' = "crashed" /\ exitCode' = 1
              ELSE IF ~r.can_resume
              THEN pc' = "exit" /\ exitCode' = 1
              ELSE IF ~({"total_lines", "chapter_files"} \subseteq DOMAIN r.checkpoint_data.fields)
              THEN pc' = "crashed" /\ exitCode' = 1
              ELSE pc' = "reconstruct" /\ exitCode' = exitCode
    /\ UNCHANGED <<Env, Locals, Trace>>

\* retry_assembly up to the resume decision (and the two prints that read the
\* checkpoint): an exception here is outside the try block and is not caught
CanResumeStep ==
    /\ pc = "check"
    /\ LET r == can_resume_from_assembly(workDir, ckptFile, unitDirExists, unitDir)
       IN  /\ resume' = r
           /\ IF r.raised # "none"
              THEN pc' = "crashed" /\ exitCode' = 1
              ELSE IF ~r.can_resume
              THEN pc' = "exit" /\ exitCode' = 1
              ELSE IF ~({"total_lines", "chapter_files"} \subseteq DOMAIN r.checkpoint_data.fields)
              THEN pc' = "crashed" /\ exitCode' = 1
              ELSE pc' = "reconstruct" /\ exitCode' = exitCode
    /\ UNCHANGED <<workDir, Env, Locals, Trace>>

\* faulty variant: the projection without the call of cleanup_partial_chapters
resume_without_cleanup(dir, data, lk) ==
    [dir |-> dir, chapter_files |-> data.fields.chapter_files,
     chapter_line_map |-> data.fields.chapter_line_map]

\* resume_from_assembly_phase: the directory left and the pair returned
resume_from_assembly_phase(dir, data, lk) ==
    [dir |-> cleanup_partial_chapters(dir, data.fields.chapter_files, lk),
     chapter_files |-> data.fields.chapter_files,
     chapter_line_map |-> data.fields.chapter_line_map]

\* retry_assembly: the call of resume_from_assembly_phase
Reconstruct ==
    /\ pc = "reconstruct"
    /\ IF ~({"chapter_files", "chapter_line_map"} \subseteq DOMAIN resume.checkpoint_data.fields)
       THEN /\ pc' = "crashed" /\ exitCode' = 1
            /\ UNCHANGED <<workDir, Locals>>
       ELSE LET r == resume_from_assembly_phase(workDir, resume.checkpoint_data, locked)
            IN  /\ workDir' = r.dir
                /\ chapter_files' = r.chapter_files
                /\ chapter_line_map' = r.chapter_line_map
                /\ pc' = IF opts.force_cleanup THEN "force_cleanup" ELSE "assembling"
                /\ idx' = 1
                /\ UNCHANGED <<m4a_chapter_files, exitCode>>
    /\ UNCHANGED <<Env, resume, Trace>>

\* retry_assembly: the second cleanup, under --force-cleanup
ForceCleanup ==
    /\ pc = "force_cleanup"
    /\ workDir' = cleanup_partial_chapters(workDir, chapter_files, locked)
    /\ pc' = "assembling"
    /\ UNCHANGED <<Env, resume, Locals, Trace, exitCode>>

(***************************************************************************)
(* assembly_and_post_processing_phase, driven by retry_assembly's async for *)
(***************************************************************************)
\* an external operation is invoked and returns: its message is yielded
OpReturns(o, msg, arg) ==
    /\ log' = log \o <<o, Event(msg, arg)>>
    /\ workDir' = MediaEffect(workDir, o, TRUE, FALSE)
    /\ UNCHANGED <<failure, exitCode>>

\* faulty variant: the exception is swallowed and the loop goes on with the next group
OpRaisesContinue(o) ==
    /\ log' = Append(log, o)
    /\ \E partial \in BOOLEAN : workDir' = MediaEffect(workDir, o, FALSE, partial)
    /\ failure' = [op |-> o.op, file |-> o.file]
    /\ pc' = IF pc = "merge_call" THEN "completing" ELSE pc
    /\ idx' = idx + 1
    /\ UNCHANGED <<exitCode, chapter_files, chapter_line_map, m4a_chapter_files>>

\* an external operation is invoked and raises: the exception leaves the generator
\* and is caught by retry_assembly, which returns 1
OpRaises(o) ==
    /\ log' = Append(log, o)
    /\ \E partial \in BOOLEAN : workDir' = MediaEffect(workDir, o, FALSE, partial)
    /\ failure' = [op |-> o.op, file |-> o.file]
    /\ pc' = "exit"
    /\ exitCode' = 1
    /\ UNCHANGED Locals

\* faulty variant: every group is assembled from the units of the first group
AssembleFirstUnits ==
    /\ pc = "assembling"
    /\ idx <= Len(chapter_files)
    /\ LET f == chapter_files[idx]
           o == MediaOp("assemble", f, <<>>, chapter_line_map[chapter_files[1]], <<>>, 0)
       IN  \/ /\ OpReturns(o, "Assembled chapter: ", f)
              /\ idx' = idx + 1
              /\ UNCHANGED <<pc, chapter_files, chapter_line_map, m4a_chapter_files>>
           \/ OpRaises(o)
    /\ UNCHANGED <<Env, resume>>

\* the assemble loop: one call of assemble_chapter_with_ffmpeg and one message
Assemble ==
    /\ pc = "assembling"
    /\ idx <= Len(chapter_files)
    /\ LET f == chapter_files[idx]
       IN  IF f \notin DOMAIN chapter_line_map
           THEN /\ failure' = [op |-> "KeyError", file |-> f]
                /\ pc' = "exit" /\ exitCode' = 1
                /\ UNCHANGED <<workDir, log, Locals>>
           ELSE LET o == MediaOp("assemble", f, <<>>, chapter_line_map[f], <<>>, 0)
                IN  \/ /\ OpReturns(o, "Assembled chapter: ", f)
                       /\ idx' = idx + 1
                       /\ UNCHANGED <<pc, chapter_files, chapter_line_map, m4a_chapter_files>>
                    \/ OpRaises(o)
    /\ UNCHANGED <<Env, resume>>

AssemblingDone ==
    /\ pc = "assembling"
    /\ idx > Len(chapter_files)
    /\ log' = Append(log, Event("Completed assembling all chapters", <<>>))
    /\ pc' = "post_processing"
    /\ idx' = 1
    /\ UNCHANGED <<workDir, Env, resume, chapter_files, chapter_line_map,
                   m4a_chapter_files, failure, exitCode>>

AddSilence ==
    /\ pc = "post_processing"
    /\ idx <= Len(chapter_files)
    /\ LET f == chapter_files[idx]
           o == MediaOp("add_silence", f, <<>>, <<>>, <<>>, SilenceMs)
       IN  \/ /\ OpReturns(o, "Added silence to chapter: ", f)
              /\ idx' = idx + 1
              /\ UNCHANGED <<pc, chapter_files, chapter_line_map, m4a_chapter_files>>
           \/ OpRaises(o)
    /\ UNCHANGED <<Env, resume>>

\* faulty variant: the add-silence loop can be left before its last group
PostProcessingDoneEarly ==
    /\ pc = "post_processing"
    /\ pc' = "converting"
    /\ idx' = 1
    /\ m4a_chapter_files' = <<>>
    /\ UNCHANGED <<workDir, Env, resume, chapter_files, chapter_line_map, Trace, exitCode>>

\* the end of the add-silence loop: the convert loop starts
PostProcessingDone ==
    /\ pc = "post_processing"
    /\ idx > Len(chapter_files)
    /\ pc' = "converting"
    /\ idx' = 1
    /\ m4a_chapter_files' = <<>>
    /\ UNCHANGED <<workDir, Env, resume, chapter_files, chapter_line_map, Trace, exitCode>>

Convert ==
    /\ pc = "converting"
    /\ idx <= Len(chapter_files)
    /\ LET f == chapter_files[idx]
           m4a_chapter_file == M4aName(f)
           o == MediaOp("convert", f, m4a_chapter_file, <<>>, <<>>, 0)
       IN  \/ /\ OpReturns(o, "Converted to M4A: ", m4a_chapter_file)
              /\ m4a_chapter_files' = Append(m4a_chapter_files, m4a_chapter_file)
              /\ idx' = idx + 1
              /\ UNCHANGED <<pc, chapter_files, chapter_line_map>>
           \/ OpRaises(o)
    /\ UNCHANGED <<Env, resume>>

\* faulty variant: the merge is not guarded by generate_m4b_audiobook_file
ConvertingDoneAlwaysMerge ==
    /\ pc = "converting"
    /\ idx > Len(chapter_files)
    /\ log' = Append(log, Event("Completed post-processing all chapters", <<>>))
    /\ pc' = "final_merging"
    /\ UNCHANGED <<workDir, Env, resume, Locals, failure, exitCode>>

\* the end of the convert loop
ConvertingDone ==
    /\ pc = "converting"
    /\ idx > Len(chapter_files)
    /\ log' = Append(log, Event("Completed post-processing all chapters", <<>>))
    /\ pc' = IF opts.generate_m4b THEN "final_merging" ELSE "completing"
    /\ UNCHANGED <<workDir, Env, resume, Locals, failure, exitCode>>

\* faulty variant: the merge is not announced
MergeStartSilent ==
    /\ pc = "final_merging"
    /\ pc' = "merge_call"
    /\ UNCHANGED <<workDir, Env, resume, Locals, Trace, exitCode>>

\* the message yielded before the merge is invoked
MergeStart ==
    /\ pc = "final_merging"
    /\ log' = Append(log, Event("Generating final M4B audiobook file...", <<>>))
    /\ pc' = "merge_call"
    /\ UNCHANGED <<workDir, Env, resume, Locals, failure, exitCode>>

\* faulty variant: the merge is given the group files instead of the converted files
MergeFinalGroupFiles ==
    /\ pc = "merge_call"
    /\ LET o == MediaOp("generate_m4b", <<>>, <<>>, <<>>, chapter_files, 0)
       IN  \/ /\ OpReturns(o, "M4B audiobook file generated successfully", <<>>)
              /\ pc' = "completing"
              /\ UNCHANGED Locals
           \/ OpRaises(o)
    /\ UNCHANGED <<Env, resume>>

\* the call of generate_m4b_audiobook_with_ffmpeg and the message after it
MergeFinal ==
    /\ pc = "merge_call"
    /\ LET o == MediaOp("generate_m4b", <<>>, <<>>, <<>>, m4a_chapter_files, 0)
       IN  \/ /\ OpReturns(o, "M4B audiobook file generated successfully", <<>>)
              /\ pc' = "completing"
              /\ UNCHANGED Locals
           \/ OpRaises(o)
    /\ UNCHANGED <<Env, resume>>

\* the last message, after which retry_assembly returns 0
Complete ==
    /\ pc = "completing"
    /\ log' = Append(log, Event("Audiobook generation completed successfully!", <<>>))
    /\ pc' = "exit"
    /\ exitCode' = 0
    /\ UNCHANGED <<workDir, Env, resume, Locals, failure>>

Next ==
    \/ Main
    \/ CanResumeStep
    \/ Reconstruct
    \/ ForceCleanup
    \/ Assemble
    \/ AssemblingDone
    \/ AddSilence
    \/ PostProcessingDone
    \/ Convert
    \/ ConvertingDone
    \/ MergeStart
    \/ MergeFinal
    \/ Complete

(***************************************************************************)
(* Re-invocation of the script after an aborted run                        *)
(***************************************************************************)
\* the script is started again on the same directories with the same options, after
\* a run that an external operation aborted: a new process, nothing kept but the files
Retry ==
    /\ pc = "exit"
    /\ failure.op \in {"assemble", "add_silence", "convert", "generate_m4b"}
    /\ Len(previous) < MaxRetries
    /\ previous' = Append(previous, log)
    /\ startDir' = workDir
    /\ pc' = "main"
    /\ resume' = NotCalled
    /\ chapter_files' = <<>>
    /\ chapter_line_map' = <<>>
    /\ idx' = 1
    /\ m4a_chapter_files' = <<>>
    /\ log' = <<>>
    /\ failure' = NoFailure
    /\ exitCode' = -1
    /\ UNCHANGED <<workDir, ckptFile, unitDirExists, unitDir, locked, opts, writer, reader>>

NextRetry == Next \/ Retry

(***************************************************************************)
(* Checkpoint store: create_recovery_checkpoint, and a call of             *)
(* load_recovery_checkpoint by another process on the same directory       *)
(***************************************************************************)
\* the state of a retry run, which the checkpoint store does not touch
RetryState == <<unitDirExists, unitDir, locked, startDir, opts, pc, resume, Locals, Trace,
                exitCode, previous>>

\* faulty variant: total_lines counts the chapters instead of the lines
checkpoint_data_counts_chapters(map, files, results) ==
    [chapter_line_map |-> map,
     chapter_files |-> files,
     total_lines |-> Len(files),
     results_metadata |-> [k \in 1..Len(results) |->
                             [index |-> results[k].index,
                              line |-> results[k].line,
                              is_chapter_heading |-> results[k].is_chapter_heading]]]

\* the dict create_recovery_checkpoint builds from its arguments
checkpoint_data(map, files, results) ==
    [chapter_line_map |-> map,
     chapter_files |-> files,
     total_lines |-> Len(results),
     results_metadata |-> [k \in 1..Len(results) |->
                             [index |-> results[k].index,
                              line |-> results[k].line,
                              is_chapter_heading |-> results[k].is_chapter_heading]]]

\* the text json.dump is to write in the current call of create_recovery_checkpoint
TextToWrite ==
    Dump(checkpoint_data(writer.chapter_line_map, writer.chapter_files, writer.results),
         writer.chapter_files)

\* open(checkpoint_path, 'w'): the content of the file once it is open, empty whether
\* or not the file existed
open_for_write(dir, file) == <<>>

\* the content of a file after the first q tokens of text reached it from its start
WriteAt(content, text, q) == SubSeq(text, 1, q) \o SubSeq(content, q + 1, Len(content))

\* create_recovery_checkpoint up to open(): the file is created or truncated
WriteOpen ==
    /\ writer.pc = "start"
    /\ workDir' = workDir \cup {CheckpointName}
    /\ ckptFile' = FileText(open_for_write(workDir, ckptFile))
    /\ writer' = [writer EXCEPT !.pc = "writing", !.pos = 0]
    /\ UNCHANGED <<RetryState, reader>>

\* json.dump is writing: the file object's buffer is flushed when it is full, so the
\* text reaches the file in chunks
WriteFlush ==
    /\ writer.pc = "writing"
    /\ \E q \in (writer.pos + 1)..Len(TextToWrite) :
         /\ ckptFile' = FileText(WriteAt(ckptFile.value, TextToWrite, q))
         /\ writer' = [writer EXCEPT !.pos = q]
    /\ UNCHANGED <<workDir, RetryState, reader>>

\* the end of the with block: the rest of the text is flushed and the file is closed
WriteClose ==
    /\ writer.pc = "writing"
    /\ ckptFile' = FileText(WriteAt(ckptFile.value, TextToWrite, Len(TextToWrite)))
    /\ writer' = [writer EXCEPT !.pc = "done", !.pos = Len(TextToWrite)]
    /\ UNCHANGED <<workDir, RetryState, reader>>

\* load_recovery_checkpoint up to the os.path.exists test
LoadExists ==
    /\ reader.pc = "start"
    /\ IF CheckpointName \notin workDir
       THEN reader' = [pc |-> "done", began |-> writer.pc, seen |-> NoFile,
                       result |-> load_recovery_checkpoint(workDir, ckptFile)]
       ELSE reader' = [reader EXCEPT !.pc = "read", !.began = writer.pc]
    /\ UNCHANGED <<workDir, ckptFile, RetryState, writer>>

\* load_recovery_checkpoint from open() on: the file is read and parsed
LoadRead ==
    /\ reader.pc = "read"
    /\ reader' = [reader EXCEPT !.pc = "done", !.seen = ckptFile,
                                !.result = load_recovery_checkpoint(workDir, ckptFile)]
    /\ UNCHANGED <<workDir, ckptFile, RetryState, writer>>

NextCheckpoint ==
    \/ WriteOpen
    \/ WriteFlush
    \/ WriteClose
    \/ LoadExists
    \/ LoadRead

(***************************************************************************)
(* Inputs: checkpoints, unit directories, working directories, options     *)
(***************************************************************************)
\* sequences of pairwise distinct elements of S, of length at most n
DistinctSeqs(S, n) ==
    UNION {{q \in [1..k -> S] : \A a, b \in 1..k : a # b => q[a] # q[b]} : k \in 0..n}

GroupLists == DistinctSeqs(GroupIds, MaxGroups)

\* the unit indices from a to b - 1, in order
Run(a, b) == [k \in 1..(b - a) |-> a + k - 1]

RECURSIVE Cuts(_, _)
\* the ways to cut 0..n-1 into g consecutive runs: the g + 1 cut points, from 0 on
Cuts(g, n) ==
    IF g = 0 THEN {<<0>>}
    ELSE {q \in {Append(c, e) : c \in Cuts(g - 1, n), e \in 0..n} :
            q[Len(q) - 1] <= q[Len(q)]}

\* the group -> unit maps that give the groups of files consecutive units of 0..n-1
LineMaps(files, n) ==
    {[f \in {files[k] : k \in 1..Len(files)} |->
        LET k == CHOOSE j \in 1..Len(files) : files[j] = f IN Run(c[k], c[k + 1])] :
     c \in {c \in Cuts(Len(files), n) : c[Len(c)] = n}}

\* the per-unit metadata list of a checkpoint
Metadata(n) == [k \in 1..n |-> [index |-> k - 1, line |-> "text", is_chapter_heading |-> k = 1]]

\* the object create_recovery_checkpoint writes
Checkpoint(files, map, total) ==
    JObject([chapter_line_map |-> map, chapter_files |-> files, total_lines |-> total,
             results_metadata |-> Metadata(total)])

\* checkpoints as the generation phase writes them: total_lines units spread over the groups
WrittenCheckpoints ==
    UNION {UNION {{Checkpoint(files, map, n) : map \in LineMaps(files, n)} :
                  n \in 0..MaxLines} : files \in GroupLists}

\* checkpoint files that hold an object: as written, with a declared total that
\* differs from the units the map names, with keys missing, or empty
SampleLists == {<<>>, <<Ch1Wav>>, <<Ch1Wav, Ch2Wav>>}

ObjectCheckpoints ==
    UNION {UNION {UNION {{Checkpoint(files, map, n) : map \in LineMaps(files, k)} :
                         n \in 0..MaxLines} : k \in 0..MaxLines} : files \in SampleLists}
    \cup {JObject([chapter_files |-> <<Ch1Wav>>, chapter_line_map |-> (Ch1Wav :> <<>>)]),
          JObject([total_lines |-> 0]),
          JObject([total_lines |-> 0, chapter_files |-> <<>>]),
          JObject(<<>>)}

\* every kind of file at the checkpoint path
CheckpointFiles ==
    {FileJson(v) : v \in ObjectCheckpoints}
    \cup {FileJson(None), FileJson(JArray(0)), FileJson(JArray(1)),
          FileMalformed, FileBadUtf8, FileUnreadable}

\* the name the generation phase gives the file of unit i: "line_" and six digits
UnitName(i) == LinePrefix \o <<"0", "0", "0", "0">> \o <<Digit[(i \div 10) + 1]>>
               \o <<Digit[(i % 10) + 1]>> \o ExtWav

\* the unit files a checkpoint can declare
UnitNames == {UnitName(i) : i \in 0..(MaxLines - 1)}

\* a unit directory with every unit present and non-empty
FullUnitDir == [f \in UnitNames |-> "data"]

\* a unit directory that does not exist
NoUnitDir == [f \in UnitNames |-> "absent"]

UnitDirs == [UnitNames -> {"absent", "empty", "data"}]

Options(m4b, book, force) ==
    [generate_m4b |-> m4b, book_path |-> book, force_cleanup |-> force,
     narrator_gender |-> "male", output_format |-> "m4a", add_emotion_tags |-> FALSE,
     temp_dir |-> "temp_audio"]

AllOptions == {Options(m, b, f) : m \in BOOLEAN, b \in BOOLEAN, f \in BOOLEAN}

\* a run with --output-format mp3
OptionsMp3 == [Options(FALSE, FALSE, FALSE) EXCEPT !.output_format = "mp3"]

\* no call of create_recovery_checkpoint
NoWriter ==
    [pc |-> "idle", chapter_line_map |-> <<>>, chapter_files |-> <<>>, results |-> <<>>,
     prior |-> NoFile, pos |-> 0]

\* no call of load_recovery_checkpoint
NoReader ==
    [pc |-> "idle", began |-> "idle", seen |-> NoFile,
     result |-> [raised |-> "none", value |-> None]]

\* the locals of a run before anything ran
InitRun ==
    /\ previous = <<>>
    /\ writer = NoWriter
    /\ reader = NoReader
    /\ pc = "main"
    /\ resume = NotCalled
    /\ chapter_files = <<>>
    /\ chapter_line_map = <<>>
    /\ idx = 1
    /\ m4a_chapter_files = <<>>
    /\ log = <<>>
    /\ failure = NoFailure
    /\ exitCode = -1

\* files a previous, interrupted run may have left in the working directory
StaleFiles == {Ch1Wav, Ch2Wav, Ch1TempWav}

\* a run on a checkpoint the generation phase wrote, complete units or the last one
\* missing, any stale group files, any options
Init ==
    /\ InitRun
    /\ \E v \in WrittenCheckpoints : ckptFile = FileJson(v)
    /\ \E stale \in SUBSET StaleFiles : workDir = {CheckpointName} \cup stale
    /\ unitDirExists = TRUE
    /\ unitDir \in {FullUnitDir, [FullUnitDir EXCEPT ![UnitName(MaxLines - 1)] = "empty"]}
    /\ locked = {}
    /\ opts \in AllOptions
    /\ startDir = workDir

Spec == Init /\ [][Next]_vars

\* a run on any checkpoint file (or none) and any unit directory
InitResume ==
    /\ InitRun
    /\ \E stale \in {{}, {Ch1Wav, Ch1TempWav}} :
         \/ \E file \in CheckpointFiles :
              ckptFile = file /\ workDir = {CheckpointName} \cup stale
         \/ ckptFile = NoFile /\ workDir = stale
    /\ \/ unitDirExists = TRUE /\ unitDir \in UnitDirs
       \/ unitDirExists = FALSE /\ unitDir = NoUnitDir
    /\ locked = {}
    /\ opts \in {Options(FALSE, FALSE, FALSE), Options(TRUE, TRUE, TRUE), OptionsMp3}
    /\ startDir = workDir

SpecResume == InitResume /\ [][Next]_vars

\* entries the working directory may hold besides the checkpoint
DirNames == {Ch1Wav, Ch2Wav, ChapterList1Txt, Ch1TempWav, Ch1TempM4a, Ch1ConcatList, NotesTxt}

\* a run with --force-cleanup on any working directory, with or without a name that
\* cannot be removed
InitClean ==
    /\ InitRun
    /\ \E files \in GroupLists :
         LET n == IF files = <<>> THEN 0 ELSE MaxLines
         IN  ckptFile = FileJson(Checkpoint(files, CHOOSE m \in LineMaps(files, n) : TRUE, n))
    /\ \E d \in SUBSET DirNames : workDir = {CheckpointName} \cup d
    /\ unitDirExists = TRUE
    /\ unitDir = FullUnitDir
    /\ locked \in {{}, {Ch1Wav}, {Ch1TempWav}}
    /\ opts \in {Options(TRUE, TRUE, TRUE), Options(FALSE, FALSE, FALSE)}
    /\ startDir = workDir

SpecClean == InitClean /\ [][Next]_vars

(***************************************************************************)
(* create_recovery_enabled_generator: the wrapped generator                *)
(***************************************************************************)
RecoveryModeMsg == "Recovery Mode: Found existing line segments, resuming from assembly phase..."

\* wrapped_generator up to its if: the resume decision and, in recovery mode, the
\* first message; an exception of can_resume_from_assembly leaves the generator
WrappedGenerator ==
    /\ pc = "wrapped"
    /\ LET r == can_resume_from_assembly(workDir, ckptFile, unitDirExists, unitDir)
       IN  /\ resume' = r
           /\ IF r.raised # "none"
              THEN pc' = "crashed" /\ log' = log
              ELSE IF r.can_resume
              THEN pc' = "reconstruct" /\ log' = Append(log, Event(RecoveryModeMsg, <<>>))
              ELSE pc' = "original" /\ log' = log
    /\ UNCHANGED <<workDir, Env, Locals, failure, exitCode>>

\* the else branch: the original generator function runs; it generates the audio of
\* every line again
OriginalGenerator ==
    /\ pc = "original"
    /\ log' = Append(log, MediaOp("original_generator", <<>>, <<>>, <<>>, <<>>, 0))
    /\ unitDirExists' = TRUE
    /\ unitDir' = FullUnitDir
    /\ pc' = "exit"
    /\ UNCHANGED <<workDir, ckptFile, locked, startDir, opts, writer, reader, previous,
                   resume, Locals, failure, exitCode>>

NextWrapped ==
    \/ WrappedGenerator
    \/ OriginalGenerator
    \/ Reconstruct
    \/ Assemble
    \/ AssemblingDone
    \/ AddSilence
    \/ PostProcessingDone
    \/ Convert
    \/ ConvertingDone
    \/ MergeStart
    \/ MergeFinal
    \/ Complete

\* a call of the wrapped generator on any checkpoint file (or none) and any unit
\* directory
InitWrapped ==
    /\ pc = "wrapped"
    /\ previous = <<>>
    /\ writer = NoWriter
    /\ reader = NoReader
    /\ resume = NotCalled
    /\ chapter_files = <<>>
    /\ chapter_line_map = <<>>
    /\ idx = 1
    /\ m4a_chapter_files = <<>>
    /\ log = <<>>
    /\ failure = NoFailure
    /\ exitCode = -1
    /\ \/ \E file \in CheckpointFiles : ckptFile = file /\ workDir = {CheckpointName}
       \/ ckptFile = NoFile /\ workDir = {}
    /\ \/ unitDirExists = TRUE /\ unitDir \in UnitDirs
       \/ unitDirExists = FALSE /\ unitDir = NoUnitDir
    /\ locked = {}
    /\ opts \in {Options(FALSE, FALSE, FALSE), Options(TRUE, TRUE, FALSE)}
    /\ startDir = workDir

SpecWrapped == InitWrapped /\ [][NextWrapped]_vars

\* a run on a complete checkpoint that may be re-invoked after an abort
InitRetry ==
    /\ InitRun
    /\ \E files \in SampleLists :
         LET n == IF files = <<>> THEN 0 ELSE MaxLines
         IN  ckptFile = FileJson(Checkpoint(files, CHOOSE m \in LineMaps(files, n) : TRUE, n))
    /\ workDir \in {{CheckpointName}, {CheckpointName, Ch1Wav, Ch1TempWav}}
    /\ unitDirExists = TRUE
    /\ unitDir = FullUnitDir
    /\ locked = {}
    /\ opts \in {Options(TRUE, TRUE, FALSE), Options(FALSE, FALSE, TRUE)}
    /\ startDir = workDir

SpecRetry == InitRetry /\ [][NextRetry]_vars

\* the results of the generation of n lines
Results(n) == [k \in 1..n |-> [index |-> k - 1, line |-> "text", is_chapter_heading |-> k = 1]]

\* the text of a checkpoint an earlier run left: two groups, MaxLines lines
PriorText ==
    LET files == <<Ch1Wav, Ch2Wav>>
        map == CHOOSE m \in LineMaps(files, MaxLines) : TRUE
    IN  Dump(checkpoint_data(map, files, Results(MaxLines)), files)

\* a call of create_recovery_checkpoint, in a directory with or without a checkpoint
\* of an earlier run, and a call of load_recovery_checkpoint at any time
InitCheckpoint ==
    /\ \E files \in SampleLists : \E n \in 0..MaxLines : \E map \in LineMaps(files, n) :
         \E prior \in {NoFile, FileText(PriorText)} :
            /\ writer = [pc |-> "start", chapter_line_map |-> map, chapter_files |-> files,
                         results |-> Results(n), prior |-> prior, pos |-> 0]
            /\ ckptFile = prior
            /\ workDir = IF prior = NoFile THEN {} ELSE {CheckpointName}
    /\ reader = [NoReader EXCEPT !.pc = "start"]
    /\ previous = <<>>
    /\ pc = "idle"
    /\ resume = NotCalled
    /\ chapter_files = <<>>
    /\ chapter_line_map = <<>>
    /\ idx = 1
    /\ m4a_chapter_files = <<>>
    /\ log = <<>>
    /\ failure = NoFailure
    /\ exitCode = -1
    /\ unitDirExists = FALSE
    /\ unitDir = NoUnitDir
    /\ locked = {}
    /\ opts = Options(FALSE, FALSE, FALSE)
    /\ startDir = workDir

SpecCheckpoint == InitCheckpoint /\ [][NextCheckpoint]_vars

(***************************************************************************)
(* Properties                                                              *)
(***************************************************************************)
\* the checkpoint file exists and holds an object that declares total_lines
DeclaresTotal ==
    /\ CheckpointName \in startDir
    /\ ckptFile.form = "json"
    /\ ckptFile.value.type = "object"
    /\ "total_lines" \in DOMAIN ckptFile.value.fields

DeclaredTotal == ckptFile.value.fields.total_lines

\* the indices below n whose unit file is absent or empty
MissingUnits(n) ==
    {i \in 0..(n - 1) : ~unitDirExists \/ unitDir[UnitName(i)] \in {"absent", "empty"}}

\* C1: with a checkpoint that declares total N and a unit directory that holds a
\* non-empty file line_{i:06d}.wav for every i in 0..N-1, can_resume_from_assembly
\* returns (True, the loaded checkpoint).
C1_CompleteUnitsResumable ==
    (resume.called /\ DeclaresTotal /\ unitDirExists /\ MissingUnits(DeclaredTotal) = {})
        => /\ resume.raised = "none"
           /\ resume.can_resume
           /\ resume.checkpoint_data = ckptFile.value

C1_Witness ==
    /\ resume.called /\ DeclaresTotal /\ unitDirExists
    /\ DeclaredTotal = MaxLines
    /\ MissingUnits(DeclaredTotal) = {}
    /\ resume.can_resume

\* s lists exactly the elements of the set M of integers, in ascending order
IsAscendingListOf(s, M) ==
    /\ Len(s) = Cardinality(M)
    /\ \A k \in 1..Len(s) : s[k] \in M
    /\ \A j, k \in 1..Len(s) : j < k => s[j] < s[k]

\* C2: with a checkpoint that declares total N and a non-empty set M of indices below N
\* whose unit file is absent or empty, can_resume_from_assembly returns False and the
\* validator's missing indices are exactly M, ascending, without duplicates.
C2_MissingUnitsReported ==
    (resume.called /\ DeclaresTotal /\ MissingUnits(DeclaredTotal) # {})
        => /\ resume.raised = "none"
           /\ ~resume.can_resume
           /\ resume.validated
           /\ ~resume.all_present
           /\ IsAscendingListOf(resume.missing, MissingUnits(DeclaredTotal))

\* total_lines = MaxLines with only the last unit missing: missing = [MaxLines - 1]
C2_Witness ==
    /\ resume.called /\ DeclaresTotal /\ unitDirExists
    /\ DeclaredTotal = MaxLines
    /\ MissingUnits(DeclaredTotal) = {MaxLines - 1}
    /\ unitDir[UnitName(MaxLines - 1)] = "empty"
    /\ resume.missing = <<MaxLines - 1>>
    /\ ~resume.can_resume

\* C3: without a checkpoint file can_resume_from_assembly returns (False, None) and
\* raises nothing, whatever the unit directory holds and whether or not it exists.
C3_NoCheckpointNotResumable ==
    (resume.called /\ CheckpointName \notin startDir)
        => /\ resume.raised = "none"
           /\ ~resume.can_resume
           /\ resume.checkpoint_data = None

C3_Witness ==
    /\ resume.called /\ CheckpointName \notin startDir
    /\ ~unitDirExists
    /\ ~resume.can_resume /\ exitCode = 1

\* the checkpoint file exists and does not parse to the checkpoint object
Unparseable ==
    /\ CheckpointName \in startDir
    /\ \/ ckptFile.form \in {"malformed", "badutf8", "unreadable"}
       \/ ckptFile.form = "json" /\ ckptFile.value.type # "object"

\* C4: a checkpoint file that exists and does not parse to the checkpoint object is
\* treated like an absent one: load_recovery_checkpoint gives no checkpoint (None, or a
\* value its caller takes for none), can_resume_from_assembly returns (False, None), and
\* no exception reaches the caller.
C4_CorruptCheckpointIsAbsent ==
    (resume.called /\ Unparseable)
        => /\ load_recovery_checkpoint(startDir, ckptFile).raised = "none"
           /\ ~Truthy(load_recovery_checkpoint(startDir, ckptFile).value)
           /\ resume.raised = "none"
           /\ ~resume.can_resume
           /\ resume.checkpoint_data = None
           /\ pc # "crashed"

\* the groups of the run, once resume_from_assembly_phase returned them
Groups == {chapter_files[k] : k \in 1..Len(chapter_files)}

\* the run reached Done: the generator finished and retry_assembly returned 0
Done == pc = "exit" /\ exitCode = 0

\* the message the generator yields when an operation has returned
ReturnMsg(op) ==
    CASE op = "assemble" -> "Assembled chapter: "
      [] op = "add_silence" -> "Added silence to chapter: "
      [] op = "convert" -> "Converted to M4A: "
      [] op = "generate_m4b" -> "M4B audiobook file generated successfully"

\* entry j of the log is a call of op for group g, and the call returned
IsReturnedCall(j, op, g) ==
    /\ j + 1 <= Len(log)
    /\ log[j].kind = "op" /\ log[j].op = op /\ log[j].file = g
    /\ log[j + 1].kind = "event" /\ log[j + 1].msg = ReturnMsg(op)

\* op was called for every group and has returned, all before entry k of the log
ReturnedForAllBefore(k, op) ==
    \A g \in Groups : \E j \in 1..(k - 2) : IsReturnedCall(j, op, g)

\* C5: the pipeline goes through Assembling, PostProcessing, Converting, (optional)
\* FinalMerging, Done in this order and skips none: add-silence is never invoked before
\* assemble has returned for every group, convert never before add-silence has returned
\* for every group, merge-final and Done only after convert has returned for every group.
C5_PhaseOrder ==
    /\ \A k \in 1..Len(log) :
         log[k].kind = "op" =>
           /\ log[k].op = "add_silence" => ReturnedForAllBefore(k, "assemble")
           /\ log[k].op = "convert" => ReturnedForAllBefore(k, "add_silence")
           /\ log[k].op = "generate_m4b" => ReturnedForAllBefore(k, "convert")
    /\ pc = "post_processing" => ReturnedForAllBefore(Len(log) + 1, "assemble")
    /\ pc = "converting" => ReturnedForAllBefore(Len(log) + 1, "add_silence")
    /\ pc \in {"final_merging", "merge_call", "completing"}
         => ReturnedForAllBefore(Len(log) + 1, "convert")
    /\ Done =>
         /\ ReturnedForAllBefore(Len(log) + 1, "assemble")
         /\ ReturnedForAllBefore(Len(log) + 1, "add_silence")
         /\ ReturnedForAllBefore(Len(log) + 1, "convert")
         /\ opts.generate_m4b => \E j \in 1..Len(log) : IsReturnedCall(j, "generate_m4b", <<>>)

C5_Witness ==
    /\ Done
    /\ Len(chapter_files) = MaxGroups
    /\ opts.generate_m4b

MediaOpNames == {"assemble", "add_silence", "convert", "generate_m4b"}

\* the pipeline state a message belongs to: 1 Assembling, 2 PostProcessing, 3 Converting,
\* 4 FinalMerging, 5 Done
EventRank(msg) ==
    CASE msg \in {"Assembled chapter: ", "Completed assembling all chapters"} -> 1
      [] msg = "Added silence to chapter: " -> 2
      [] msg \in {"Converted to M4A: ", "Completed post-processing all chapters"} -> 3
      [] msg \in {"Generating final M4B audiobook file...",
                  "M4B audiobook file generated successfully"} -> 4
      [] OTHER -> 5

OpRank(op) ==
    CASE op = "assemble" -> 1 [] op = "add_silence" -> 2 [] op = "convert" -> 3 [] OTHER -> 4

CountInLog(Test(_)) == Cardinality({j \in 1..Len(log) : Test(log[j])})

\* C6: when an external operation fails for group g in state S the pipeline aborts at
\* once: the failing call is the last thing that happened (no operation is invoked and
\* no message is yielded after it), every earlier call is followed by its message, and
\* there is no message for g's operation in S nor for any later state.
C6_AbortIsImmediate ==
    failure.op \in MediaOpNames =>
        /\ pc = "exit" /\ exitCode = 1
        /\ Len(log) >= 1
        /\ log[Len(log)].kind = "op"
        /\ log[Len(log)].op = failure.op
        /\ log[Len(log)].file = failure.file
        /\ \A j \in 1..(Len(log) - 1) :
             log[j].kind = "op" =>
               log[j + 1].kind = "event" /\ log[j + 1].msg = ReturnMsg(log[j].op)
        /\ LET IsCall(e) == e.kind = "op" /\ e.op = failure.op
               IsMsg(e) == e.kind = "event" /\ e.msg = ReturnMsg(failure.op)
           IN  CountInLog(IsMsg) = CountInLog(IsCall) - 1
        /\ failure.op \in {"assemble", "add_silence"} =>
             \A j \in 1..Len(log) :
               ~(log[j].kind = "event" /\ log[j].msg = ReturnMsg(failure.op)
                 /\ log[j].arg = failure.file)
        /\ \A j \in 1..Len(log) :
             log[j].kind = "event" => EventRank(log[j].msg) <= OpRank(failure.op)

\* add-silence fails on the second group: the first group's two messages are there
C6_Witness ==
    /\ failure.op = "add_silence"
    /\ Len(chapter_files) >= 2
    /\ failure.file = chapter_files[2]
    /\ \E j \in 1..Len(log) :
         log[j] = Event("Assembled chapter: ", chapter_files[1])
    /\ \E j \in 1..Len(log) :
         log[j] = Event("Added silence to chapter: ", chapter_files[1])

\* resume_from_assembly_phase has returned and assemble was not invoked yet
BeforeAssembling == pc \in {"force_cleanup", "assembling"} /\ Ops = <<>>

\* C7: after resume_from_assembly_phase returns and before the first assemble, none of
\* the checkpoint's group files is in the working directory (when its removal does not
\* fail), with or without --force-cleanup, and the function has returned the
\* checkpoint's chapter_files and chapter_line_map.
C7_ReconstructCleans ==
    BeforeAssembling =>
        /\ chapter_files = ckptFile.value.fields.chapter_files
        /\ chapter_line_map = ckptFile.value.fields.chapter_line_map
        /\ \A k \in 1..Len(ckptFile.value.fields.chapter_files) :
             LET f == ckptFile.value.fields.chapter_files[k]
             IN  f \notin locked => f \notin workDir

\* ch1.wav pre-existed, is a group of the checkpoint, and is gone without --force-cleanup
C7_Witness ==
    /\ BeforeAssembling
    /\ ~opts.force_cleanup
    /\ Ch1Wav \in startDir
    /\ Ch1Wav \in Groups
    /\ Ch1Wav \notin workDir

PatTempAny == <<"*", ".", "t", "e", "m", "p", ".", "*">>

\* a directory without any of the group files and without transient artifacts
IsCleanDir(dir, files) ==
    /\ \A k \in 1..Len(files) : files[k] \notin dir
    /\ \A f \in dir : ~FnMatch(PatChapterList, f) /\ ~FnMatch(PatTempAny, f)
                      /\ ~FnMatch(PatConcatList, f)

\* C8: cleanup_partial_chapters is idempotent: the second of two calls in succession
\* (the --force-cleanup call, right after the one of resume_from_assembly_phase) leaves
\* the directory as the first call left it, and a call on a clean directory changes
\* nothing.
C8_CleanupIdempotent ==
    [][/\ pc = "force_cleanup" => workDir' = workDir
       /\ (pc = "reconstruct"
           /\ IsCleanDir(workDir, resume.checkpoint_data.fields.chapter_files))
            => workDir' = workDir]_vars

\* the second call has run on a directory from which the first one removed files
C8_Witness ==
    /\ pc = "assembling" /\ Ops = <<>>
    /\ opts.force_cleanup
    /\ Cardinality(startDir \ workDir) >= 2
    /\ Cardinality(Groups \cap startDir) >= 2

\* C9: when no merged final artifact is requested the pipeline goes from the end of
\* Converting straight to Done: merge-final is never invoked and no FinalMerging message
\* is yielded.
C9_NoMergeUnlessRequested ==
    ~opts.generate_m4b =>
        /\ pc \notin {"final_merging", "merge_call"}
        /\ \A j \in 1..Len(log) :
             /\ log[j].kind = "op" => log[j].op # "generate_m4b"
             /\ log[j].kind = "event" => EventRank(log[j].msg) # 4
        /\ Done => log[Len(log) - 1] = Event("Completed post-processing all chapters", <<>>)

C9_Witness ==
    /\ ~opts.generate_m4b
    /\ Done
    /\ Len(chapter_files) = MaxGroups

\* C10: no step of the resume path writes, truncates or removes the checkpoint file or
\* a unit artifact, also when the run aborts.
C10_InputsUntouched ==
    [][/\ (CheckpointName \in workDir') = (CheckpointName \in workDir)
       /\ ckptFile' = ckptFile
       /\ unitDirExists' = unitDirExists
       /\ unitDir' = unitDir]_vars

\* an aborted run that cleaned stale files and still has its checkpoint
C10_Witness ==
    /\ pc = "exit"
    /\ failure.op \in MediaOpNames
    /\ startDir \ workDir # {}
    /\ CheckpointName \in workDir

\* the reader's call began when the writer's call had returned
ReadAfterWrite == reader.pc = "done" /\ reader.began = "done"

\* C11: create_recovery_checkpoint is atomic for a concurrent reader: whenever
\* load_recovery_checkpoint runs, the file it reads is the complete previous file (or
\* there is none) or the complete new file, never an empty or partly written one, and
\* it returns the previous checkpoint (None without one) or the new checkpoint.
C11_WriteIsAtomic ==
    reader.pc = "done" =>
        /\ reader.seen \in {writer.prior, FileText(TextToWrite)}
        /\ reader.result.raised = "none"
        /\ reader.result.value \in
             {load_recovery_checkpoint(startDir, writer.prior).value,
              JObject(checkpoint_data(writer.chapter_line_map, writer.chapter_files,
                                      writer.results))}

\* C12: create_recovery_checkpoint followed by load_recovery_checkpoint on the same
\* directory returns a checkpoint whose chapter_line_map, chapter_files and
\* results_metadata (index, line, is_chapter_heading of every unit) are the written
\* ones and whose total_lines is the number of units written, whether or not the
\* directory held a checkpoint before.
C12_RoundTrip ==
    ReadAfterWrite =>
        /\ reader.result.raised = "none"
        /\ reader.result.value.type = "object"
        /\ LET got == reader.result.value.fields
           IN  /\ DOMAIN got = {"chapter_line_map", "chapter_files", "total_lines",
                                "results_metadata"}
               /\ got.chapter_line_map = writer.chapter_line_map
               /\ got.chapter_files = writer.chapter_files
               /\ got.total_lines = Len(writer.results)
               /\ Len(got.results_metadata) = Len(writer.results)
               /\ \A k \in 1..Len(writer.results) :
                    /\ got.results_metadata[k].index = writer.results[k].index
                    /\ got.results_metadata[k].line = writer.results[k].line
                    /\ got.results_metadata[k].is_chapter_heading
                         = writer.results[k].is_chapter_heading

\* a shorter checkpoint written over a longer one, then read back
C12_Witness ==
    /\ ReadAfterWrite
    /\ writer.prior = FileText(PriorText)
    /\ Len(TextToWrite) < Len(PriorText)
    /\ Len(writer.chapter_files) = 1
    /\ Len(writer.results) = MaxLines
    /\ reader.result.value.type = "object"

\* the generator ran to its end: its last message was yielded
ReachedDone ==
    \E j \in 1..Len(log) : log[j] = Event("Audiobook generation completed successfully!", <<>>)

\* C13: a run ends with exit code 0 exactly when the pipeline reached Done, with exit
\* code 1 on every validation failure (--generate-m4b without --book-path, no or corrupt
\* checkpoint, incomplete units) and on every abort of the pipeline, and in no other
\* way: no exception leaves retry_assembly.
C13_ExitCodes ==
    /\ pc # "crashed"
    /\ pc = "exit" =>
         /\ exitCode \in {0, 1}
         /\ exitCode = 0 <=> ReachedDone
         /\ (opts.generate_m4b /\ ~opts.book_path) => exitCode = 1
         /\ (resume.called /\ ~resume.can_resume) => exitCode = 1
         /\ failure.op # "none" => exitCode = 1
    /\ pc # "exit" => exitCode = -1

\* the checkpoint's group -> unit map names at least one unit index
MapReferencesUnit ==
    /\ "chapter_line_map" \in DOMAIN ckptFile.value.fields
    /\ \E f \in DOMAIN ckptFile.value.fields.chapter_line_map :
         ckptFile.value.fields.chapter_line_map[f] # <<>>

\* the phase generator was started
PipelineStarted ==
    \/ pc \in {"assembling", "post_processing", "converting", "final_merging", "merge_call",
               "completing"}
    \/ log # <<>>

\* C14: a checkpoint that declares total 0 while its group -> unit map names a unit
\* index is refused: the validator answers all_present = False, can_resume_from_assembly
\* returns False, and the pipeline is never started on it.
C14_ZeroTotalWithUnitsRefused ==
    (resume.called /\ DeclaresTotal /\ DeclaredTotal = 0 /\ MapReferencesUnit)
        => /\ resume.validated
           /\ ~resume.all_present
           /\ ~resume.can_resume
           /\ ~PipelineStarted

\* the total the validator is called with: checkpoint_data.get("total_lines", 0)
ExpectedCount == DictGet(ckptFile.value, "total_lines", 0)

DeclaresNoGroup ==
    /\ CheckpointName \in startDir
    /\ ckptFile.form = "json"
    /\ ckptFile.value.type = "object"
    /\ "chapter_files" \in DOMAIN ckptFile.value.fields
    /\ ckptFile.value.fields.chapter_files = <<>>

\* C16: a checkpoint that declares zero groups is resumable, and the pipeline run on it
\* invokes no external media operation at all (assemble, add-silence, convert,
\* merge-final), whatever the options, and ends with the completion message.
C16_ZeroGroupsNoWork ==
    (resume.called /\ DeclaresNoGroup) =>
        /\ resume.can_resume
        /\ Ops = <<>>
        /\ failure = NoFailure
        /\ pc = "exit" => ReachedDone /\ exitCode = 0

\* C17: in Assembling, PostProcessing and Converting the groups are processed one after
\* the other in the order of the checkpoint's chapter_files: the k-th call of a state's
\* operation is for the k-th group, assemble gets exactly that group's unit indices
\* from chapter_line_map, no operation is invoked before the previous one has returned
\* and its message was yielded, and each state yields exactly one message per group,
\* right after that group's operation returned.
C17_GroupsInOrder ==
    log # <<>> =>
        LET order == ckptFile.value.fields.chapter_files
            map == ckptFile.value.fields.chapter_line_map
        IN  \A op \in {"assemble", "add_silence", "convert"} :
              LET IsCall(e) == e.kind = "op" /\ e.op = op
                  IsMsg(e) == e.kind = "event" /\ e.msg = ReturnMsg(op)
                  calls == SelectSeq(log, IsCall)
                  msgs == SelectSeq(log, IsMsg)
              IN  /\ Len(calls) <= Len(order)
                  /\ \A k \in 1..Len(calls) :
                       /\ calls[k].file = order[k]
                       /\ op = "assemble" => calls[k].units = map[order[k]]
                  /\ \A j \in 1..(Len(log) - 1) :
                       IsCall(log[j]) =>
                         /\ IsMsg(log[j + 1])
                         /\ log[j + 1].arg = IF op = "convert" THEN log[j].out ELSE log[j].file
                  /\ \A j \in 1..Len(log) :
                       IsMsg(log[j]) => j > 1 /\ IsCall(log[j - 1])
                  /\ Len(msgs) <= Len(calls)
                  /\ ReachedDone => Len(msgs) = Len(order)

\* a finished run on two groups with different units
C17_Witness ==
    /\ ReachedDone
    /\ Len(chapter_files) = 2
    /\ ckptFile.value.fields.chapter_line_map[chapter_files[1]] = <<0>>
    /\ ckptFile.value.fields.chapter_line_map[chapter_files[2]] = <<1>>
    /\ \E j \in 1..Len(log) :
         log[j].kind = "op" /\ log[j].op = "assemble" /\ log[j].file = chapter_files[2]
         /\ log[j].units = <<1>>

\* the file extension of an output format
ExtOf(format) ==
    CASE format = "m4a" -> ExtM4a
      [] format = "mp3" -> <<".", "m", "p", "3">>

\* name with its extension (what follows its last dot) replaced by ext
ReplaceExt(name, ext) ==
    IF \A k \in 1..Len(name) : name[k] # "." THEN name \o ext
    ELSE LET k == CHOOSE j \in 1..Len(name) :
                      name[j] = "." /\ \A h \in (j + 1)..Len(name) : name[h] # "."
         IN  SubSeq(name, 1, k - 1) \o ext

\* C18: in Converting the output file of every group is named as the group with its
\* extension replaced by the extension of the output format the caller asked for, and
\* the list of converted files has one entry per group, in group order.
C18_ConvertedNames ==
    /\ \A j \in 1..Len(log) :
         (log[j].kind = "op" /\ log[j].op = "convert")
             => log[j].out = ReplaceExt(log[j].file, ExtOf(opts.output_format))
    /\ pc \in {"final_merging", "merge_call", "completing"} \/ ReachedDone =>
         /\ Len(m4a_chapter_files) = Len(chapter_files)
         /\ \A k \in 1..Len(chapter_files) :
              m4a_chapter_files[k] = ReplaceExt(chapter_files[k], ExtOf(opts.output_format))

\* C19: when the merged artifact is requested, merge-final is invoked exactly once,
\* only after convert has returned for every group, and it is given the converted file
\* names of all groups in group order, the working directory, the source-document path
\* and the narrator voice.
C19_MergeOnceAfterConvert ==
    LET IsMerge(e) == e.kind = "op" /\ e.op = "generate_m4b"
        IsConvert(e) == e.kind = "op" /\ e.op = "convert"
        merges == SelectSeq(log, IsMerge)
        converts == SelectSeq(log, IsConvert)
    IN  /\ Len(merges) <= 1
        /\ (opts.generate_m4b /\ ReachedDone) => Len(merges) = 1
        /\ \A j \in 1..Len(log) :
             IsMerge(log[j]) =>
               /\ opts.generate_m4b
               /\ ReturnedForAllBefore(j, "convert")
               /\ Len(converts) = Len(chapter_files)
               /\ \A k \in 1..Len(converts) : converts[k].file = chapter_files[k]
               /\ log[j].files = [k \in 1..Len(converts) |-> converts[k].out]
               /\ log[j].dir = opts.temp_dir
               /\ log[j].book = opts.book_path
               /\ log[j].voice = opts.narrator_gender

\* a finished run with the merge, on two groups
C19_Witness ==
    /\ ReachedDone
    /\ opts.generate_m4b
    /\ Len(chapter_files) = 2
    /\ \E j \in 1..Len(log) :
         /\ log[j].kind = "op" /\ log[j].op = "generate_m4b"
         /\ log[j].files = <<M4aName(chapter_files[1]), M4aName(chapter_files[2])>>
         /\ log[j].book

\* the messages of the FinalMerging state
IsMergeEvent(e) == e.kind = "event" /\ EventRank(e.msg) = 4
IsMergeStartEvent(e) == e = Event("Generating final M4B audiobook file...", <<>>)
IsMergeDoneEvent(e) == e = Event("M4B audiobook file generated successfully", <<>>)
IsMergeCall(e) == e.kind = "op" /\ e.op = "generate_m4b"

\* C20 as stated: FinalMerging yields a single message, on completion of merge-final:
\* none before merge-final has returned, so that a failing merge-final yields none.
C20_SingleMergeEvent ==
    /\ CountInLog(IsMergeEvent) <= 1
    /\ \A j \in 1..Len(log) : IsMergeEvent(log[j]) => j > 1 /\ IsMergeCall(log[j - 1])
    /\ failure.op = "generate_m4b" => CountInLog(IsMergeEvent) = 0

\* C20 amended: FinalMerging yields two messages, "Generating final M4B audiobook
\* file..." right before merge-final is invoked and "M4B audiobook file generated
\* successfully" right after it returned; a failing merge-final leaves the first
\* message and yields no completion message.
C20_MergeEvents ==
    /\ CountInLog(IsMergeStartEvent) <= 1
    /\ CountInLog(IsMergeDoneEvent) <= 1
    /\ \A j \in 1..Len(log) :
         /\ IsMergeEvent(log[j]) => IsMergeStartEvent(log[j]) \/ IsMergeDoneEvent(log[j])
         /\ IsMergeCall(log[j]) => j > 1 /\ IsMergeStartEvent(log[j - 1])
         /\ IsMergeStartEvent(log[j]) => j = Len(log) \/ IsMergeCall(log[j + 1])
         /\ IsMergeDoneEvent(log[j]) => j > 1 /\ IsMergeCall(log[j - 1])
    /\ failure.op = "generate_m4b" =>
         /\ CountInLog(IsMergeStartEvent) = 1
         /\ CountInLog(IsMergeDoneEvent) = 0
    /\ (ReachedDone /\ opts.generate_m4b) =>
         /\ CountInLog(IsMergeStartEvent) = 1
         /\ CountInLog(IsMergeDoneEvent) = 1

\* merge-final failed after it was announced
C20_Witness ==
    /\ failure.op = "generate_m4b"
    /\ Len(chapter_files) = MaxGroups
    /\ Len(log) >= 2
    /\ IsMergeStartEvent(log[Len(log) - 1])
    /\ IsMergeCall(log[Len(log)])
    /\ exitCode = 1

\* p is an initial part of q
IsPrefix(p, q) == Len(p) <= Len(q) /\ p = SubSeq(q, 1, Len(p))

\* this run was started after an earlier run on the same directory was aborted
IsRetry == Len(previous) >= 1

IsStale(f) ==
    \/ \E k \in 1..Len(ckptFile.value.fields.chapter_files) :
         ckptFile.value.fields.chapter_files[k] = f
    \/ \E k \in 1..Len(temp_patterns) : f \in Glob({f}, temp_patterns[k])

\* C22: a stale file that cannot be removed does not stop anything:
\* cleanup_partial_chapters raises nothing and still removes every other group file and
\* transient file, and resume_from_assembly_phase returns the checkpoint's chapter_files
\* and chapter_line_map, so that the pipeline starts.
C22_RemovalFailureNotFatal ==
    /\ (pc = "crashed" \/ (pc = "exit" /\ ~resume.called)) => Ops = <<>>
    /\ resume.can_resume => pc \notin {"crashed"}
    /\ BeforeAssembling =>
         /\ chapter_files = ckptFile.value.fields.chapter_files
         /\ chapter_line_map = ckptFile.value.fields.chapter_line_map
         /\ \A f \in startDir :
              /\ (IsStale(f) /\ f \notin locked) => f \notin workDir
              /\ (IsStale(f) /\ f \in locked) => f \in workDir

\* ch1.wav could not be removed; ch2.wav, listed after it, and the transient file were
C22_Witness ==
    /\ pc = "post_processing"
    /\ locked = {Ch1Wav}
    /\ chapter_files = <<Ch1Wav, Ch2Wav>>
    /\ {Ch1Wav, Ch2Wav, Ch1TempWav, Ch1ConcatList} \subseteq startDir
    /\ Ch1ConcatList \notin workDir
    /\ Ch1TempWav \notin workDir
    /\ \E j \in 1..Len(log) : log[j].kind = "op" /\ log[j].op = "assemble"
                                /\ log[j].file = Ch2Wav

\* C23: after cleanup_partial_chapters has returned, every removal having succeeded,
\* the working directory holds no transient file: no chapter_list_*.txt, no *.temp.*
\* file of any extension and no *.concat_list.txt.
C23_NoTransientFileLeft ==
    (BeforeAssembling /\ locked = {}) =>
        \A f \in workDir :
            /\ ~FnMatch(PatChapterList, f)
            /\ ~FnMatch(PatTempAny, f)
            /\ ~FnMatch(PatConcatList, f)

\* the branches of the wrapped generator
RecoveryBranch == \E j \in 1..Len(log) : log[j] = Event(RecoveryModeMsg, <<>>)
OriginalBranch ==
    \/ pc = "original"
    \/ \E j \in 1..Len(log) : log[j].kind = "op" /\ log[j].op = "original_generator"

\* C24: every call of the wrapped generator takes exactly one branch: the original
\* generator is invoked if and only if can_resume_from_assembly returned False; when it
\* returned True only the cleanup and the phase pipeline run, no line audio is
\* generated again, and the two branches are never both taken.
C24_ExactlyOneBranch ==
    resume.called =>
        /\ ~(RecoveryBranch /\ OriginalBranch)
        /\ RecoveryBranch \/ OriginalBranch
        /\ OriginalBranch <=> (resume.raised = "none" /\ ~resume.can_resume)
        /\ RecoveryBranch <=> (resume.raised = "none" /\ resume.can_resume)
        /\ RecoveryBranch =>
             \A j \in 1..Len(log) :
                 log[j].kind = "op" => log[j].op \in MediaOpNames

\* the run was refused: main rejected the options, or can_resume_from_assembly
\* returned False
Refused ==
    \/ pc = "exit" /\ ~resume.called
    \/ resume.called /\ resume.raised = "none" /\ ~resume.can_resume

NoDuplicate(q) == \A a, b \in 1..Len(q) : a # b => q[a] # q[b]

\* C26: pairwise distinct group identifiers, including ones with more than one ".",
\* yield pairwise distinct converted file names: no convert call writes the output of
\* an earlier one, the collected list has no duplicate, and neither has the list
\* passed to merge-final.
C26_DistinctConvertedNames ==
    NoDuplicate(chapter_files) =>
        /\ NoDuplicate(m4a_chapter_files)
        /\ \A a, b \in 1..Len(log) :
             (a # b /\ log[a].kind = "op" /\ log[a].op = "convert"
                    /\ log[b].kind = "op" /\ log[b].op = "convert"
                    /\ log[a].file # log[b].file)
                 => log[a].out # log[b].out
        /\ \A j \in 1..Len(log) :
             (log[j].kind = "op" /\ log[j].op = "generate_m4b") => NoDuplicate(log[j].files)

====
